---- MODULE Spec2Model ----
(***************************************************************************)
(* Model of the claude-dashboard backend (src/backend/server.js): the      *)
(* JSONL decoder, the session aggregator, the content formatter, the       *)
(* directory scanner, the change watcher and the WebSocket hub.            *)
(*                                                                         *)
(* JavaScript values are tagged records [k |-> kind, <payload>]:            *)
(*   undefined, null, bool, num, str, arr (a sequence of values) and obj   *)
(*   (a sequence of <<key, value>> pairs in insertion order).              *)
(* A thrown exception is the marker value Raise; every operator that       *)
(* models a JavaScript function returns either a value or Raise.           *)
(***************************************************************************)
EXTENDS Integers, Sequences, FiniteSets, TLC

VARIABLES
  fs,          \* the projects directory: root state, project dirs, session files
  clients,     \* server.js:22  the Set of connected sockets
  readyState,  \* per socket: the ws transport state
  sent,        \* per socket: the texts the last handler run handed to ws.send()
  firstSent,   \* per socket: the type of the first message ever sent to it
  down,        \* TRUE once an exception escaped a handler that nothing catches
  run,         \* the last handler run: its input, its outcome, the data it built
  arg,         \* input of the pure function being verified
  ret          \* its result

vars == <<fs, clients, readyState, sent, firstSent, down, run, arg, ret>>

-----------------------------------------------------------------------------
(* JavaScript values *)

Undef == [k |-> "undef"]
Null == [k |-> "null"]
Raise == [k |-> "raise"]
JBool(b) == [k |-> "bool", b |-> b]
JNum(n) == [k |-> "num", n |-> n]
JStr(s) == [k |-> "str", s |-> s]
JArr(a) == [k |-> "arr", a |-> a]
JObj(p) == [k |-> "obj", o |-> p]

IsStr(x) == x.k = "str"
IsArr(x) == x.k = "arr"
IsRaise(x) == x.k = "raise"

\* ToBoolean: undefined, null, false, 0 and "" are falsy, everything else truthy.
Truthy(x) ==
  CASE x.k = "undef" -> FALSE
    [] x.k = "null" -> FALSE
    [] x.k = "bool" -> x.b
    [] x.k = "num" -> x.n # 0
    [] x.k = "str" -> x.s # ""
    [] OTHER -> TRUE

\* a || b
JsOr(a, b) == IF Truthy(a) THEN a ELSE b

\* Own keys of an object, and x.name: a property read raises a TypeError on
\* undefined and null, yields undefined on a primitive, an array or a missing key.
HasKey(x, name) == x.k = "obj" /\ \E i \in 1..Len(x.o) : x.o[i][1] = name

Get(x, name) ==
  IF x.k \in {"undef", "null", "raise"} THEN Raise
  ELSE IF HasKey(x, name)
       THEN x.o[CHOOSE i \in 1..Len(x.o) : x.o[i][1] = name][2]
       ELSE Undef

\* x?.name
GetOpt(x, name) == IF x.k \in {"undef", "null"} THEN Undef ELSE Get(x, name)

Min(a, b) == IF a < b THEN a ELSE b

\* s.substring(0, n) on a string s
Substring0(s, n) == SubSeq(s, 1, Min(n, Len(s)))

RECURSIVE JoinStr(_, _)
\* Array.prototype.join on a sequence of strings
JoinStr(ss, sep) ==
  IF Len(ss) = 0 THEN ""
  ELSE IF Len(ss) = 1 THEN ss[1]
  ELSE ss[1] \o sep \o JoinStr(Tail(ss), sep)

RECURSIVE NumText(_)
\* decimal text of a natural number
NumText(n) ==
  IF n < 10 THEN SubSeq("0123456789", n + 1, n + 1)
  ELSE NumText(n \div 10) \o SubSeq("0123456789", (n % 10) + 1, (n % 10) + 1)

RECURSIVE Spaces(_)
Spaces(n) == IF n = 0 THEN "" ELSE " " \o Spaces(n - 1)

\* the line break JSON.stringify puts before a member at nesting level lvl
Break(ind, lvl) == IF ind = 0 THEN "" ELSE "\n" \o Spaces(ind * lvl)

\* a Date, and Date.prototype.toISOString of the instant t seconds into a minute
JDate(t) == [k |-> "date", t |-> t]
IsoText(t) == "2025-01-01T00:00:0" \o NumText(t) \o ".000Z"

RECURSIVE JsonText(_, _, _)
\* The text JSON.stringify(x, null, ind) produces for a defined value x at
\* nesting level lvl (strings of the model carry no character that is escaped).
JsonText(x, ind, lvl) ==
  CASE x.k = "null" -> "null"
    [] x.k = "bool" -> IF x.b THEN "true" ELSE "false"
    [] x.k = "num" -> NumText(x.n)
    [] x.k = "str" -> "\"" \o x.s \o "\""
    [] x.k = "date" -> "\"" \o IsoText(x.t) \o "\""
    [] x.k = "arr" ->
         IF Len(x.a) = 0 THEN "[]"
         ELSE "[" \o Break(ind, lvl + 1)
              \o JoinStr([i \in 1..Len(x.a) |->
                            IF x.a[i].k = "undef" THEN "null"
                            ELSE JsonText(x.a[i], ind, lvl + 1)],
                         "," \o Break(ind, lvl + 1))
              \o Break(ind, lvl) \o "]"
    [] x.k = "obj" ->
         LET def == SelectSeq(x.o, LAMBDA p : p[2].k # "undef") IN
         IF Len(def) = 0 THEN "{}"
         ELSE "{" \o Break(ind, lvl + 1)
              \o JoinStr([i \in 1..Len(def) |->
                            "\"" \o def[i][1] \o "\":"
                            \o (IF ind = 0 THEN "" ELSE " ")
                            \o JsonText(def[i][2], ind, lvl + 1)],
                         "," \o Break(ind, lvl + 1))
              \o Break(ind, lvl) \o "}"

\* JSON.stringify(x, null, ind): undefined for undefined, a string otherwise.
Stringify(x, ind) == IF x.k = "undef" THEN Undef ELSE JStr(JsonText(x, ind, 0))

RECURSIVE ToText(_)
\* String(x) and template interpolation `${x}` of a value
ToText(x) ==
  CASE x.k = "str" -> x.s
    [] x.k = "undef" -> "undefined"
    [] x.k = "null" -> "null"
    [] x.k = "bool" -> IF x.b THEN "true" ELSE "false"
    [] x.k = "num" -> NumText(x.n)
    [] x.k = "arr" -> JoinStr([i \in 1..Len(x.a) |->
                                 IF x.a[i].k \in {"undef", "null"} THEN ""
                                 ELSE ToText(x.a[i])], ",")
    [] x.k = "obj" -> "[object Object]"

IsWs(c) == c \in {" ", "\n", "\t", "\r"}

RECURSIVE TrimStart(_)
TrimStart(s) ==
  IF Len(s) > 0 /\ IsWs(SubSeq(s, 1, 1)) THEN TrimStart(SubSeq(s, 2, Len(s))) ELSE s

RECURSIVE TrimEnd(_)
TrimEnd(s) ==
  IF Len(s) > 0 /\ IsWs(SubSeq(s, Len(s), Len(s)))
  THEN TrimEnd(SubSeq(s, 1, Len(s) - 1)) ELSE s

\* String.prototype.trim
Trim(s) == TrimEnd(TrimStart(s))

\* index of the first newline of s, 0 when there is none
FirstNl(s) ==
  LET nl == { i \in 1..Len(s) : SubSeq(s, i, i) = "\n" } IN
  IF nl = {} THEN 0 ELSE CHOOSE i \in nl : \A j \in nl : i <= j

RECURSIVE SplitNl(_)
\* s.split('\n')
SplitNl(s) ==
  LET i == FirstNl(s) IN
  IF i = 0 THEN <<s>>
  ELSE <<SubSeq(s, 1, i - 1)>> \o SplitNl(SubSeq(s, i + 1, Len(s)))

\* s.endsWith('.jsonl')
EndsWithJsonl(s) == Len(s) >= 6 /\ SubSeq(s, Len(s) - 5, Len(s)) = ".jsonl"

\* s.replace('.jsonl', ''): the first occurrence of the pattern is removed
ReplaceJsonl(s) ==
  IF \E i \in 1..(Len(s) - 5) : SubSeq(s, i, i + 5) = ".jsonl"
  THEN LET i == CHOOSE j \in 1..(Len(s) - 5) :
                  /\ SubSeq(s, j, j + 5) = ".jsonl"
                  /\ \A h \in 1..(j - 1) : SubSeq(s, h, h + 5) # ".jsonl"
       IN SubSeq(s, 1, i - 1) \o SubSeq(s, i + 6, Len(s))
  ELSE s

RECURSIVE ReplaceHyphens(_)
\* s.replace(/-/g, '/')
ReplaceHyphens(s) ==
  IF Len(s) = 0 THEN ""
  ELSE (IF SubSeq(s, 1, 1) = "-" THEN "/" ELSE SubSeq(s, 1, 1))
       \o ReplaceHyphens(SubSeq(s, 2, Len(s)))

-----------------------------------------------------------------------------
(* Records that session files of the model hold, and lines of text *)

Rec(pairs) == JObj(pairs)
Msg(pairs) == <<"message", JObj(pairs)>>
Ty(t) == <<"type", JStr(t)>>
Block(t, pairs) == JObj(<<Ty(t)>> \o pairs)

\* the JSON values a line of a session file can decode to in SpecDecode
DecodeValues ==
  { Null, JBool(FALSE), JNum(0), JNum(7), JStr(""), JArr(<<>>),
    Rec(<<Ty("user"), <<"message", JStr("hello")>> >>),
    Rec(<<Ty("summary"), <<"summary", JStr("S")>> >>) }

\* records of the session files of the hub
TextBlock(t) == Block("text", << <<"text", JStr(t)>> >>)

UserHello == Rec(<<Ty("user"), <<"message", JStr("hello")>> >>)
UserNullBlock == Rec(<<Ty("user"), Msg(<< <<"content", JArr(<<Null>>)>> >>)>>)
AssistantText ==
  Rec(<<Ty("assistant"),
        Msg(<< <<"model", JStr("m1")>>,
               <<"content", JArr(<<TextBlock("hi")>>)>>,
               <<"usage", JObj(<< <<"input_tokens", JNum(3)>>,
                                  <<"output_tokens", JNum(2)>> >>)>> >>)>>)
AssistantTool ==
  Rec(<<Ty("assistant"),
        Msg(<< <<"model", JStr("m1")>>,
               <<"content", JArr(<<Block("tool_use", << <<"name", JStr("grep")>> >>)>>)>>,
               <<"usage", JObj(<< <<"input_tokens", JNum(3)>>,
                                  <<"output_tokens", JNum(2)>> >>)>> >>)>>)

AssistantGrep ==
  Rec(<<Ty("assistant"),
        Msg(<< <<"model", JStr("m1")>>,
               <<"content", JArr(<<Block("tool_use",
                                         << <<"name", JStr("grep")>>,
                                            <<"input", JObj(<< <<"q", JStr("x")>> >>)>> >>)>>)>>,
               <<"usage", JObj(<< <<"input_tokens", JNum(3)>>,
                                  <<"output_tokens", JNum(2)>> >>)>> >>)>>)

\* what an observer sends on the channel
GetSession(pairs) == Rec(<<Ty("getSession")>> \o pairs)
ClientValues ==
  { GetSession(<< <<"projectRaw", JStr("-home-u-app")>>, <<"sessionId", JStr("s1")>> >>),
    GetSession(<< <<"projectRaw", JStr("-home-u-app")>>, <<"sessionId", JStr("s9")>> >>),
    GetSession(<< <<"sessionId", JStr("s1")>> >>),
    Rec(<<Ty("refresh")>>),
    Rec(<<Ty("ping")>>),
    Null }

\* lines JSON.parse rejects, and lines that are blank after trimming
BadLines == { "{bad", "undefined" }
BlankLines == { "", "  " }

\* every JSON value that the text of the model (file lines, client messages)
\* can spell; JSON.parse is modelled on the compact spellings of these values
JsonUniverse ==
  DecodeValues
  \cup { UserHello, UserNullBlock, AssistantText, AssistantTool, AssistantGrep }
  \cup ClientValues

ParseTable == { <<JsonText(x, 0, 0), x>> : x \in JsonUniverse }

\* JSON.parse(text): the value the text spells, a SyntaxError otherwise
\* (surrounding whitespace is allowed by the JSON grammar).
JSONparse(text) ==
  LET t == Trim(text) IN
  IF \E e \in ParseTable : e[1] = t
  THEN (CHOOSE e \in ParseTable : e[1] = t)[2]
  ELSE Raise

-----------------------------------------------------------------------------
(* Files: a node is absent, a readable file, or a file that cannot be read *)

AbsentNode == [st |-> "absent", text |-> "", mtime |-> 0]
FileNode(t, m) == [st |-> "file", text |-> t, mtime |-> m]

\* fs.existsSync(path)
existsSync(node) == node.st # "absent"

\* fs.readFileSync(path, 'utf-8'): the text, or an exception (ENOENT, EACCES)
readFileSync(node) == IF node.st = "file" THEN JStr(node.text) ELSE Raise

\* lines.map(line => { try { JSON.parse } catch { null } })
SafeParse(line) == LET x == JSONparse(line) IN IF IsRaise(x) THEN Null ELSE x

MapSeq(Op(_), ss) == [i \in 1..Len(ss) |-> Op(ss[i])]

\* the filter of line 71 keeps the values ToBoolean accepts
KeepParsed(x) == Truthy(x)

\* server.js:58-76
parseJsonlFile(node) ==
  IF ~existsSync(node) THEN <<>>
  ELSE LET content == readFileSync(node) IN
       IF IsRaise(content) THEN <<>>
       ELSE LET lines == SelectSeq(SplitNl(Trim(content.s)),
                                   LAMBDA line : Trim(line) # "")
            IN SelectSeq(MapSeq(SafeParse, lines), KeepParsed)

-----------------------------------------------------------------------------
(* Session Aggregator: server.js:119-222 *)

\* a + b of JavaScript: numeric on numbers and booleans, concatenation otherwise
JsAdd(a, b) ==
  LET num(x) == IF x.k = "bool" THEN (IF x.b THEN 1 ELSE 0) ELSE x.n IN
  IF a.k \in {"num", "bool"} /\ b.k \in {"num", "bool"}
  THEN JNum(num(a) + num(b))
  ELSE JStr(ToText(a) \o ToText(b))

\* Array.prototype.includes: SameValueZero, so an object or an array decoded
\* from one place of a file is never equal to one decoded from another place
Includes(list, x) ==
  /\ x.k \notin {"obj", "arr"}
  /\ \E i \in 1..Len(list) : list[i] = x

\* the includes test of lines 183 and 190 dropped: every occurrence is pushed
PushAlways(list, x) == Append(list, x)

\* toolUses.includes(name) || toolUses.push(name)
PushNew(list, x) == IF Includes(list, x) THEN list ELSE Append(list, x)

\* c => c.type === 'text' over an array: reading .type of a null or undefined
\* element raises
AnyNullish(arr) == \E i \in 1..Len(arr) : arr[i].k \in {"null", "undef"}

TypeIs(x, t) == Get(x, "type") = JStr(t)

\* lines 153-156: content.filter(c => c.type === 'text').map(c => c.text || '').join(sep)
TextBlocksJoined(arr, sep) ==
  IF AnyNullish(arr) THEN Raise
  ELSE LET texts == SelectSeq(arr, LAMBDA c : TypeIs(c, "text"))
       IN JStr(JoinStr([i \in 1..Len(texts) |->
                          ToText(JsOr(Get(texts[i], "text"), JStr("")))], sep))

FirstUserLimit == 200

\* lines 146-163: the text captured from a user record whose message is truthy
UserMessageText(entry) ==
  LET message == Get(entry, "message")
      content == Get(message, "content")
      msg == IF IsStr(message) THEN message
             ELSE IF Truthy(content)
                  THEN IF IsStr(content) THEN content
                       ELSE IF IsArr(content) THEN TextBlocksJoined(content.a, " ")
                       ELSE Stringify(content, 0)
                  ELSE Stringify(message, 0)
  IN IF IsRaise(msg) THEN Raise
     ELSE JStr(Substring0(ToText(msg), FirstUserLimit))

\* lines 168-176: the text of a summary record whose summary is truthy
SummaryText(entry) ==
  LET sm == Get(entry, "summary")
      content == Get(sm, "content")
  IN IF IsStr(sm) THEN sm
     ELSE IF Truthy(content)
          THEN (IF IsStr(content) THEN content ELSE Stringify(content, 0))
          ELSE Stringify(sm, 0)

RECURSIVE BlockTools(_, _)
\* lines 188-194: names of the tool_use blocks of an assistant content array
\* none of whose elements is null
BlockTools(tools, blocks) ==
  IF Len(blocks) = 0 THEN tools
  ELSE LET block == Head(blocks) IN
       BlockTools(
         IF TypeIs(block, "tool_use") /\ Truthy(Get(block, "name"))
         THEN PushNew(tools, Get(block, "name")) ELSE tools,
         Tail(blocks))

\* the accumulators of lines 120-126
Acc0 ==
  [ totalInputTokens |-> JNum(0), totalOutputTokens |-> JNum(0), messageCount |-> 0,
    toolUses |-> <<>>, firstUserMessage |-> "", summary |-> "", model |-> JStr("") ]

\* the guard of line 145 without its !firstUserMessage
CapturesAlways(acc, entry) ==
  TypeIs(entry, "user") /\ Truthy(Get(entry, "message"))

\* line 145: entry.type === 'user' && !firstUserMessage && entry.message
Captures(acc, entry) ==
  /\ TypeIs(entry, "user")
  /\ acc.firstUserMessage = ""
  /\ Truthy(Get(entry, "message"))

\* the operands of line 130 swapped: message.usage taken before entry.usage
UsageOfMessageFirst(entry) ==
  JsOr(GetOpt(Get(entry, "message"), "usage"), Get(entry, "usage"))

\* line 130: entry.usage || entry.message?.usage
UsageOf(entry) ==
  JsOr(Get(entry, "usage"), GetOpt(Get(entry, "message"), "usage"))

\* one round of the loop of lines 128-201
ExtractStep(acc, entry) ==
  LET usage == UsageOf(entry)
      tok(name) == JsOr(Get(usage, name), JNum(0))
      inTok == IF Truthy(usage)
               THEN JsAdd(JsAdd(JsAdd(acc.totalInputTokens, tok("input_tokens")),
                                tok("cache_creation_input_tokens")),
                          tok("cache_read_input_tokens"))
               ELSE acc.totalInputTokens
      outTok == IF Truthy(usage)
                THEN JsAdd(acc.totalOutputTokens, tok("output_tokens"))
                ELSE acc.totalOutputTokens
      count == IF TypeIs(entry, "user") \/ TypeIs(entry, "assistant")
               THEN acc.messageCount + 1 ELSE acc.messageCount
      first == IF Captures(acc, entry)
               THEN UserMessageText(entry) ELSE JStr(acc.firstUserMessage)
      summ == IF TypeIs(entry, "summary") /\ Truthy(Get(entry, "summary"))
              THEN SummaryText(entry) ELSE JStr(acc.summary)
      tools1 == IF TypeIs(entry, "tool_use") \/ Truthy(Get(entry, "tool"))
                THEN PushNew(acc.toolUses,
                             JsOr(Get(entry, "tool"),
                                  JsOr(Get(entry, "name"), JStr("unknown"))))
                ELSE acc.toolUses
      mcontent == GetOpt(Get(entry, "message"), "content")
      scanBlocks == TypeIs(entry, "assistant") /\ IsArr(mcontent)
      \* line 189 reads block.type: a null block raises
      blockRaise == scanBlocks /\ AnyNullish(mcontent.a)
      tools2 == IF scanBlocks /\ ~blockRaise
                THEN BlockTools(tools1, mcontent.a) ELSE tools1
      model == IF ~Truthy(acc.model)
               THEN JsOr(Get(entry, "model"),
                         JsOr(GetOpt(Get(entry, "message"), "model"), JStr("")))
               ELSE acc.model
  IN IF IsRaise(first) \/ blockRaise THEN Raise
     ELSE [ totalInputTokens |-> inTok, totalOutputTokens |-> outTok,
            messageCount |-> count, toolUses |-> tools2,
            firstUserMessage |-> first.s, summary |-> summ.s, model |-> model ]

RECURSIVE ExtractLoop(_, _)
ExtractLoop(acc, entries) ==
  IF acc = Raise \/ Len(entries) = 0 THEN acc
  ELSE ExtractLoop(ExtractStep(acc, Head(entries)), Tail(entries))

\* server.js:219-222
decodeProjectName(encoded) == ReplaceHyphens(encoded)

NoSummary == "No summary"

\* the fallback order of line 207 swapped: the user message taken before the summary
PickSummaryUserFirst(summary, firstUserMessage) ==
  IF firstUserMessage # "" THEN firstUserMessage
  ELSE IF summary # "" THEN summary
  ELSE NoSummary

\* line 207: summary || firstUserMessage || 'No summary'
PickSummary(summary, firstUserMessage) ==
  IF summary # "" THEN summary
  ELSE IF firstUserMessage # "" THEN firstUserMessage
  ELSE NoSummary

\* line 211 with the output tokens left out of the total
TotalTokensInputOnly(inTok, outTok) == inTok

\* line 211: totalInputTokens + totalOutputTokens
TotalTokens(inTok, outTok) == JsAdd(inTok, outTok)

\* lines 203-215: the summary built from the accumulators the loop leaves
SessionOf(acc, entries, project, filename) ==
  IF acc = Raise THEN Raise
  ELSE [ k |-> "session",
         id |-> ReplaceJsonl(filename),
         project |-> decodeProjectName(project),
         projectRaw |-> project,
         summary |-> PickSummary(acc.summary, acc.firstUserMessage),
         messageCount |-> acc.messageCount,
         totalInputTokens |-> acc.totalInputTokens,
         totalOutputTokens |-> acc.totalOutputTokens,
         totalTokens |-> TotalTokens(acc.totalInputTokens, acc.totalOutputTokens),
         toolUses |-> acc.toolUses,
         model |-> acc.model,
         entryCount |-> Len(entries),
         filePath |-> Undef, lastModified |-> Undef, fileSize |-> Undef ]

\* server.js:119-216.  filePath, lastModified and fileSize are not set here:
\* the callers attach them.
extractSessionInfo(entries, project, filename) ==
  SessionOf(ExtractLoop(Acc0, entries), entries, project, filename)

-----------------------------------------------------------------------------
(* Content Formatter: server.js:254-371 *)

\* c => { if (c.type === 'text' && c.text) return c.text;
\*        if (typeof c === 'string') return c; return <other> }
TextOrString(c, other) ==
  IF TypeIs(c, "text") /\ Truthy(Get(c, "text")) THEN Get(c, "text")
  ELSE IF IsStr(c) THEN c
  ELSE other

\* arr.map(fn).join(sep): join spells null and undefined as the empty text
JoinValues(vals, sep) ==
  JoinStr([i \in 1..Len(vals) |->
             IF vals[i].k \in {"null", "undef"} THEN "" ELSE ToText(vals[i])], sep)

\* server.js:254-264
extractToolResultContent(content) ==
  IF IsStr(content) THEN content
  ELSE IF IsArr(content)
       THEN IF AnyNullish(content.a) THEN Raise
            ELSE JStr(JoinValues([i \in 1..Len(content.a) |->
                                    TextOrString(content.a[i],
                                                 Stringify(content.a[i], 0))], "\n"))
       ELSE Stringify(content, 0)

\* lines 288-295, 302-309: the texts of an array, null when it has none
\* (.map(...).filter(Boolean), then join when the list is not empty)
JoinedTexts(arr) ==
  IF AnyNullish(arr) THEN Raise
  ELSE LET texts == SelectSeq([i \in 1..Len(arr) |-> TextOrString(arr[i], Null)],
                              Truthy)
       IN IF Len(texts) > 0 THEN JStr(JoinValues(texts, "\n")) ELSE Null

\* lines 276-285
ToolResults(arr) ==
  LET trs == SelectSeq(arr, LAMBDA c : TypeIs(c, "tool_result"))
      outs == [i \in 1..Len(trs) |-> extractToolResultContent(Get(trs[i], "content"))]
  IN IF \E i \in 1..Len(outs) : IsRaise(outs[i]) THEN Raise
     ELSE JObj(<< <<"type", JStr("tool_results")>>,
                  <<"results",
                    JArr([i \in 1..Len(trs) |->
                            JObj(<< <<"tool_use_id", Get(trs[i], "tool_use_id")>>,
                                    <<"content", outs[i]>> >>)])>> >>)

\* lines 269-315
FormatUser(entry) ==
  LET message == Get(entry, "message")
      mc == GetOpt(message, "content")
      ec == Get(entry, "content")
      fromMessage ==
        IF ~Truthy(mc) THEN Null
        ELSE IF IsStr(mc) THEN mc
        ELSE IF IsArr(mc)
             THEN IF AnyNullish(mc.a) THEN Raise
                  ELSE IF \E i \in 1..Len(mc.a) : TypeIs(mc.a[i], "tool_result")
                       THEN ToolResults(mc.a)
                       ELSE JoinedTexts(mc.a)
             ELSE Null
      fromContent ==
        IF ~Truthy(ec) THEN Null
        ELSE IF IsStr(ec) THEN ec
        ELSE IF IsArr(ec) THEN JoinedTexts(ec.a)
        ELSE Null
  IN IF IsStr(message) THEN message
     ELSE IF fromMessage # Null THEN fromMessage
     ELSE IF fromContent # Null THEN fromContent
     ELSE IF Truthy(message) THEN Stringify(message, 2)
     ELSE Stringify(entry, 2)

ThinkingLimit == 500
BlockInputLimit == 300

\* lines 325-331: what one content block adds to parts; Undef when nothing
AssistantPart(block) ==
  IF block.k \in {"null", "undef"} THEN Raise
  ELSE IF TypeIs(block, "text") /\ Truthy(Get(block, "text")) THEN Get(block, "text")
  ELSE IF TypeIs(block, "thinking") /\ Truthy(Get(block, "thinking"))
       THEN \* block.thinking.substring: only a string has the method
            IF IsStr(Get(block, "thinking"))
            THEN JStr("Thinking:\n"
                      \o Substring0(Get(block, "thinking").s, ThinkingLimit) \o "...")
            ELSE Raise
  ELSE IF TypeIs(block, "tool_use")
       THEN \* JSON.stringify(undefined) is undefined, which has no substring
            LET input == Stringify(Get(block, "input"), 2) IN
            IF input = Undef THEN Raise
            ELSE JStr("Tool: " \o ToText(Get(block, "name")) \o "\nInput: "
                      \o Substring0(input.s, BlockInputLimit))
  ELSE Undef

\* lines 318-347
FormatAssistant(entry) ==
  LET message == Get(entry, "message")
      mc == GetOpt(message, "content")
      ec == Get(entry, "content")
      parts == [i \in 1..Len(mc.a) |-> AssistantPart(mc.a[i])]
      pushed == SelectSeq(parts, LAMBDA x : x # Undef)
      joined == JoinValues(pushed, "\n\n")
      texts == TextBlocksJoined(ec.a, "\n")
  IN IF IsStr(message) THEN message
     ELSE IF Truthy(mc) /\ IsStr(mc) THEN mc
     ELSE IF Truthy(mc) /\ IsArr(mc)
          THEN IF \E i \in 1..Len(parts) : IsRaise(parts[i]) THEN Raise
               ELSE IF joined # "" THEN JStr(joined) ELSE JStr("[Processing...]")
     ELSE IF Truthy(ec) /\ IsStr(ec) THEN ec
     ELSE IF Truthy(ec) /\ IsArr(ec)
          THEN IF IsRaise(texts) THEN Raise
               ELSE IF texts.s # "" THEN texts ELSE JStr("[Response]")
     ELSE IF Truthy(message) THEN Stringify(message, 2)
     ELSE JStr("[Empty response]")

ToolInputLimit == 500
ResultLimit == 500
OtherLimit == 300

\* line 360 with the marker added from the limit on instead of above it
ResultExcerptFromLimit(resultStr) ==
  Substring0(resultStr, ResultLimit)
  \o (IF Len(resultStr) >= ResultLimit THEN "..." ELSE "")

\* line 360: resultStr.substring(0, 500) and '...' when resultStr is longer
ResultExcerpt(resultStr) ==
  Substring0(resultStr, ResultLimit)
  \o (IF Len(resultStr) > ResultLimit THEN "..." ELSE "")

\* server.js:267-371.  The labels are spelled without their leading emoji.
formatEntryContent(entry) ==
  IF TypeIs(entry, "user") THEN FormatUser(entry)
  ELSE IF TypeIs(entry, "assistant") THEN FormatAssistant(entry)
  ELSE IF TypeIs(entry, "tool_use")
       THEN LET toolName == JsOr(Get(entry, "name"),
                                 JsOr(Get(entry, "tool"), JStr("unknown")))
                input == JsOr(Get(entry, "input"),
                              JsOr(Get(entry, "arguments"), JObj(<<>>)))
            IN JStr("Tool: " \o ToText(toolName) \o "\nInput: "
                    \o Substring0(Stringify(input, 2).s, ToolInputLimit))
  ELSE IF TypeIs(entry, "tool_result")
       THEN LET result == JsOr(Get(entry, "result"),
                               JsOr(Get(entry, "output"),
                                    JsOr(Get(entry, "content"), JStr(""))))
                resultStr == IF IsStr(result) THEN result.s
                             ELSE Stringify(result, 0).s
            IN JStr("Result: " \o ResultExcerpt(resultStr))
  ELSE IF TypeIs(entry, "summary")
       THEN JStr("Summary: " \o ToText(JsOr(Get(entry, "summary"), JStr(""))))
  ELSE LET typeLabel == JsOr(Get(entry, "type"), JStr("unknown"))
       IN JStr(ToText(typeLabel) \o ": "
               \o Substring0(Stringify(entry, 2).s, OtherLimit))

-----------------------------------------------------------------------------
(* The pure functions on their own: the input is drawn in Init, one action   *)
(* applies the function.  The hub's variables are idle in these.            *)

NoRet == [k |-> "none"]
Val(x) == [k |-> "val", v |-> x]

HubOff ==
  /\ fs = <<>> /\ clients = {} /\ readyState = <<>> /\ sent = <<>>
  /\ firstSent = <<>> /\ down = FALSE /\ run = <<>>

HubIdle == UNCHANGED <<fs, clients, readyState, sent, firstSent, down, run>>

RECURSIVE SeqsUpTo(_, _)
\* the sequences over S of length at most n
SeqsUpTo(S, n) ==
  IF n = 0 THEN { <<>> }
  ELSE LET shorter == SeqsUpTo(S, n - 1)
       IN shorter \cup { Append(q, x) : q \in shorter, x \in S }

(* Record Decoder *)

MaxLines == 3

DecodeLines == { JsonText(x, 0, 0) : x \in DecodeValues } \cup BadLines \cup BlankLines

\* a file is its lines joined by newlines
TextOf(lines) == JoinStr(lines, "\n")

DecodeInputs ==
  { [st |-> "file", lines |-> ls] : ls \in SeqsUpTo(DecodeLines, MaxLines) }
  \cup { [st |-> "absent", lines |-> <<>>],
         [st |-> "noperm", lines |-> <<JsonText(JNum(7), 0, 0)>>] }

NodeOf(in) == [st |-> in.st, text |-> TextOf(in.lines), mtime |-> 0]

InitDecode == HubOff /\ arg \in DecodeInputs /\ ret = NoRet

Decode ==
  /\ ret = NoRet
  /\ ret' = Val(parseJsonlFile(NodeOf(arg)))
  /\ UNCHANGED arg /\ HubIdle

SpecDecode == InitDecode /\ [][Decode]_vars

\* the values of the lines of a file that are syntactically valid JSON, in order
ValidValues(lines) == SelectSeq(MapSeq(JSONparse, lines), LAMBDA x : ~IsRaise(x))

\* C1: for a readable file of valid, invalid and blank lines, parseJsonlFile
\* returns exactly one record per valid line, in the order of the lines,
\* whatever JSON value the line carries.
C1_OneRecordPerValidLine ==
  (ret # NoRet /\ arg.st = "file") => ret.v = ValidValues(arg.lines)

(* Content Formatter *)

\* shapes of message.content / content
ContentShapes ==
  { JStr("hi"), JStr(""), JNum(5), JObj(<<>>),
    JArr(<<>>),
    JArr(<<TextBlock("a"), TextBlock("b")>>),
    JArr(<<JStr("raw")>>),
    JArr(<<JNum(3)>>),
    JArr(<<Null>>),
    JArr(<<TextBlock("a"), Null>>),
    JArr(<<Block("tool_result", << <<"tool_use_id", JStr("t1")>>,
                                   <<"content", JStr("out")>> >>)>>),
    JArr(<<Block("tool_result", << <<"tool_use_id", JStr("t1")>> >>)>>),
    JArr(<<Block("tool_result", << <<"content", JArr(<<TextBlock("o"), JStr("p"),
                                                       JNum(1)>>)>> >>)>>),
    JArr(<<Block("tool_result", << <<"content", JArr(<<Null>>)>> >>)>>),
    JArr(<<Block("thinking", << <<"thinking", JStr("hmm")>> >>)>>),
    JArr(<<Block("thinking", << <<"thinking", JNum(5)>> >>)>>),
    JArr(<<Block("thinking", << <<"thinking", JObj(<<>>)>> >>)>>),
    JArr(<<Block("tool_use", << <<"name", JStr("grep")>>,
                                <<"input", JObj(<< <<"q", JStr("x")>> >>)>> >>)>>),
    JArr(<<Block("tool_use", << <<"name", JStr("grep")>> >>)>>),
    JArr(<<Block("image", <<>>)>>) }

MessageRecords(t) ==
  { Rec(<<Ty(t), Msg(<< <<"content", c>> >>)>>) : c \in ContentShapes }
  \cup { Rec(<<Ty(t), <<"content", c>> >>) : c \in ContentShapes }
  \cup { Rec(<<Ty(t), Msg(<< <<"content", JArr(<<>>)>> >>), <<"content", c>> >>) :
           c \in { JStr("direct"), JArr(<<TextBlock("d")>>), JArr(<<Null>>) } }
  \cup { Rec(<<Ty(t)>>),
         Rec(<<Ty(t), <<"message", JStr("hello")>> >>),
         Rec(<<Ty(t), <<"message", JStr("")>> >>),
         Rec(<<Ty(t), Msg(<< <<"role", JStr(t)>> >>)>>) }

OtherRecords ==
  { Rec(<<Ty("tool_use"), <<"name", JStr("grep")>>, <<"input", JObj(<<>>)>> >>),
    Rec(<<Ty("tool_use"), <<"tool", JStr("read")>>, <<"arguments", JStr("a")>> >>),
    Rec(<<Ty("tool_use")>>),
    Rec(<<Ty("tool_result"), <<"result", JStr("done")>> >>),
    Rec(<<Ty("tool_result"), <<"output", JObj(<< <<"code", JNum(0)>> >>)>> >>),
    Rec(<<Ty("tool_result"), <<"content", JArr(<<Null>>)>> >>),
    Rec(<<Ty("tool_result")>>),
    Rec(<<Ty("summary"), <<"summary", JStr("S")>> >>),
    Rec(<<Ty("summary"), <<"summary", JObj(<< <<"content", JStr("S")>> >>)>> >>),
    Rec(<<Ty("summary")>>),
    Rec(<<Ty("system"), <<"note", JStr("n")>> >>),
    Rec(<< <<"note", JStr("n")>> >>),
    Rec(<< <<"type", JNum(1)>> >>),
    JNum(7), JStr("hi"), JBool(TRUE), JArr(<<Null>>) }

\* the records the formatter is applied to: every type, every shape of the
\* optional fields (values that parseJsonlFile can return: all are truthy)
FormatInputs == MessageRecords("user") \cup MessageRecords("assistant") \cup OtherRecords

InitFormat == HubOff /\ arg \in FormatInputs /\ ret = NoRet

Format ==
  /\ ret = NoRet
  /\ ret' = Val(formatEntryContent(arg))
  /\ UNCHANGED arg /\ HubIdle

SpecFormat == InitFormat /\ [][Format]_vars

\* C3: formatEntryContent returns a presentable content value for every decoded
\* record and never raises.
C3_FormatterTotal == ret # NoRet => ~IsRaise(ret.v)

(* Session Aggregator *)

MaxEntries == 3

RECURSIVE Rep(_, _)
\* the text s repeated n times
Rep(s, n) ==
  IF n = 0 THEN ""
  ELSE IF n % 2 = 0 THEN LET half == Rep(s, n \div 2) IN half \o half
  ELSE s \o Rep(s, n - 1)

LongText == Rep("x", FirstUserLimit + 1)

UserLong == Rec(<<Ty("user"), Msg(<< <<"content", JStr(LongText)>> >>)>>)
UserBlocks ==
  Rec(<<Ty("user"), Msg(<< <<"content", JArr(<<TextBlock("a"), TextBlock("b")>>)>> >>)>>)
UserImage == Rec(<<Ty("user"), Msg(<< <<"content", JArr(<<Block("image", <<>>)>>)>> >>)>>)
UserBare == Rec(<<Ty("user")>>)
SummaryS == Rec(<<Ty("summary"), <<"summary", JStr("S")>> >>)
SummaryEmpty == Rec(<<Ty("summary"), <<"summary", JStr("")>> >>)
SummaryNested ==
  Rec(<<Ty("summary"), <<"summary", JObj(<< <<"content", JStr("N")>> >>)>> >>)
ExtractRecords ==
  { UserHello, UserLong, UserBlocks, UserImage, UserBare, UserNullBlock,
    SummaryS, SummaryEmpty, SummaryNested, AssistantTool }

ExtractInputs == SeqsUpTo(ExtractRecords, MaxEntries)

InitExtract == HubOff /\ arg \in ExtractInputs /\ ret = NoRet

Extract ==
  /\ ret = NoRet
  /\ ret' = Val(extractSessionInfo(arg, "-home-u-app", "sess1.jsonl"))
  /\ UNCHANGED arg /\ HubIdle

SpecExtract == InitExtract /\ [][Extract]_vars

(* Tool results *)

\* lengths below, at and above the limit of line 360
ResultLengths == {0, 1, 2, 399, 400, 401, 499, 500, 501, 502, 599, 600}
ResultFields == {"result", "output", "content"}

\* a text of length n whose two halves differ
TwoHalves(c, n) == Rep(c, n \div 2) \o Rep("z", n - (n \div 2))

ResultRecord(field, text) == Rec(<<Ty("tool_result"), <<field, JStr(text)>> >>)

ResultInputs ==
  { ResultRecord(f, TwoHalves(c, n)) : f \in ResultFields, c \in {"x", "y"},
                                       n \in ResultLengths }

InitResult == HubOff /\ arg \in ResultInputs /\ ret = NoRet

FormatResult ==
  /\ ret = NoRet
  /\ ret' = Val(formatEntryContent(arg))
  /\ UNCHANGED arg /\ HubIdle

SpecResult == InitResult /\ [][FormatResult]_vars

\* the result text of a tool_result record: result, else output, else content
ResultTextOf(entry) ==
  IF HasKey(entry, "result") THEN Get(entry, "result").s
  ELSE IF HasKey(entry, "output") THEN Get(entry, "output").s
  ELSE Get(entry, "content").s

ResultLabel == "Result: "
Ellipsis == "..."

\* C16: formatting a tool_result record whose result text has length L gives
\* the label, then the first min(L, 500) characters of the text, then the
\* ellipsis marker exactly when L > 500.
C16_ResultCutAt500 ==
  ret # NoRet =>
    LET text == ResultTextOf(arg)
        L == Len(text)
    IN ret.v = JStr(ResultLabel \o SubSeq(text, 1, IF L < 500 THEN L ELSE 500)
                    \o (IF L > 500 THEN Ellipsis ELSE ""))

\* a result of 600 characters came out as the label, 500 characters and the marker
C16_Witness ==
  /\ ret # NoRet
  /\ Len(ResultTextOf(arg)) = 600
  /\ Len(ret.v.s) = Len(ResultLabel) + 500 + Len(Ellipsis)

-----------------------------------------------------------------------------
(* The projects directory.  fs.root and fs.proj[p] are "dir", "noperm" (a    *)
(* directory that cannot be listed), "file" (not a directory) or "absent";   *)
(* fs.file[<<p, f>>] is the node of the file f of project p.                 *)

ProjectA == "-home-u-app"
Session1 == "s1.jsonl"
Session2 == "s2.jsonl"

\* fs.readdirSync order of the names
ProjectNames == <<ProjectA>>
FileNames == <<"notes.txt", Session1, Session2>>

Range(q) == { q[i] : i \in 1..Len(q) }
FilePaths == Range(ProjectNames) \X Range(FileNames)

\* line 15: CLAUDE_DIR, as its segments and as text
ClaudeSegs == <<"", "home", "u", ".claude", "projects">>
ClaudeDir == JoinStr(ClaudeSegs, "/")

\* path.join(CLAUDE_DIR, ...segs)
PathText(segs) == JoinStr(ClaudeSegs \o segs, "/")

NodeAt(f, project, file) ==
  IF f.root # "absent" /\ project \in DOMAIN f.proj /\ f.proj[project] # "absent"
     /\ <<project, file>> \in DOMAIN f.file
  THEN f.file[<<project, file>>]
  ELSE AbsentNode

RECURSIVE InsertByDate(_, _)
\* s goes before the first session that is strictly older: equal dates keep
\* their order (Array.prototype.sort is stable)
InsertByDate(sorted, s) ==
  IF Len(sorted) = 0 THEN <<s>>
  ELSE IF Head(sorted).lastModified.t < s.lastModified.t THEN <<s>> \o sorted
  ELSE <<Head(sorted)>> \o InsertByDate(Tail(sorted), s)

RECURSIVE SortByDateDesc(_)
\* line 113: sessions.sort((a, b) => new Date(b.lastModified) - new Date(a.lastModified))
SortByDateDesc(sessions) ==
  IF Len(sessions) = 0 THEN <<>>
  ELSE InsertByDate(SortByDateDesc(SubSeq(sessions, 1, Len(sessions) - 1)),
                    sessions[Len(sessions)])

\* lines 95-109 for one file of one project: Raise, or the array of what it
\* pushes (nothing when skipped).  fStat is the directory as statSync sees it,
\* fRead as parseJsonlFile sees it.
\* lines 104-108: the summary with the path and the stat of its file, pushed
Stamped(info, st, project, file) ==
  IF info = Raise THEN Raise
  ELSE JArr(<< [info EXCEPT !.filePath = JStr(PathText(<<project, file>>)),
                            !.lastModified = JDate(st.mtime),
                            !.fileSize = JNum(Len(st.text))] >>)

ScanFile(fStat, fRead, project, file) ==
  IF ~EndsWithJsonl(file) THEN JArr(<<>>)
  ELSE IF NodeAt(fStat, project, file).st = "absent" THEN Raise      \* statSync: ENOENT
  ELSE Stamped(extractSessionInfo(parseJsonlFile(NodeAt(fRead, project, file)),
                                  project, file),
               NodeAt(fStat, project, file), project, file)

\* the pushes of two stretches of the loop, one after the other
Then(one, rest) ==
  IF IsRaise(one) \/ IsRaise(rest) THEN Raise ELSE JArr(one.a \o rest.a)

RECURSIVE ScanFiles(_, _, _, _)
ScanFiles(fStat, fRead, project, files) ==
  IF Len(files) = 0 THEN JArr(<<>>)
  ELSE Then(ScanFile(fStat, fRead, project, Head(files)),
            ScanFiles(fStat, fRead, project, Tail(files)))

\* fs.readdirSync(projectPath) as the directory stands in f
ListProject(f, project) ==
  SelectSeq(FileNames, LAMBDA n : NodeAt(f, project, n).st # "absent")

\* lines 89-110 for one project.  fDir is the directory as statSync and
\* readdirSync of the project see it.
ScanProject(fDir, fStat, fRead, project) ==
  IF fDir.root = "absent" \/ fDir.proj[project] = "absent" THEN Raise  \* statSync: ENOENT
  ELSE IF fDir.proj[project] = "file" THEN JArr(<<>>)   \* not a directory: continue
  ELSE IF fDir.proj[project] = "noperm" THEN Raise     \* readdirSync: EACCES
  ELSE ScanFiles(fStat, fRead, project, ListProject(fDir, project))

RECURSIVE ScanProjects(_, _, _, _)
ScanProjects(fDir, fStat, fRead, projects) ==
  IF Len(projects) = 0 THEN JArr(<<>>)
  ELSE Then(ScanProject(fDir, fStat, fRead, Head(projects)),
            ScanProjects(fDir, fStat, fRead, Tail(projects)))

\* server.js:79-116: the array of summaries, or Raise.  snap is the directory at
\* the four instants the scan reads it: snap[1] at existsSync and readdirSync of
\* the root, snap[2] at statSync and readdirSync of a project, snap[3] at statSync
\* of a file, snap[4] at its read.
\* lines 113-115
Sorted(sessions) ==
  IF IsRaise(sessions) THEN Raise ELSE JArr(SortByDateDesc(sessions.a))

\* the scan without the existsSync guard of lines 82-85
getAllSessionsUnguarded(snap) ==
  IF snap[1].root # "dir" THEN Raise
  ELSE Sorted(ScanProjects(snap[2], snap[3], snap[4],
                           SelectSeq(ProjectNames,
                                     LAMBDA n : snap[1].proj[n] # "absent")))

getAllSessions(snap) ==
  IF snap[1].root = "absent" THEN JArr(<<>>)
  ELSE IF snap[1].root # "dir" THEN Raise              \* readdirSync: EACCES, ENOTDIR
  ELSE Sorted(ScanProjects(snap[2], snap[3], snap[4],
                           SelectSeq(ProjectNames,
                                     LAMBDA n : snap[1].proj[n] # "absent")))

\* lines 236-242: the object for the entry at position i, content formatted
Presented(entry, i, content) ==
  IF IsRaise(content) THEN Raise
  ELSE [ index |-> i - 1,
         type |-> JsOr(Get(entry, "type"), JStr("unknown")),
         timestamp |-> JsOr(Get(entry, "timestamp"), Get(entry, "ts")),
         content |-> content,
         raw |-> entry ]

\* server.js:235-243
PresentEntry(entries, i) == Presented(entries[i], i, formatEntryContent(entries[i]))

\* lines 245-250
DetailOf(sessionId, projectRaw, messages, stats) ==
  IF (\E i \in 1..Len(messages) : messages[i] = Raise) \/ stats = Raise
  THEN Raise
  ELSE [ k |-> "detail",
         sessionId |-> sessionId,
         project |-> decodeProjectName(projectRaw),
         messages |-> messages,
         stats |-> stats ]

\* lines 232-250 on the decoded entries
DetailFrom(entries, projectRaw, sessionId) ==
  DetailOf(sessionId, projectRaw,
           [i \in 1..Len(entries) |-> PresentEntry(entries, i)],
           extractSessionInfo(entries, projectRaw, ToText(sessionId) \o ".jsonl"))

\* server.js:225-251.  fCheck is the directory at the existsSync of line 228,
\* fRead at the read inside parseJsonlFile.  Null is the not-found value.
\* path.join raises a TypeError when projectRaw is not a string.
getSessionDetails(fCheck, fRead, projectRaw, sessionId) ==
  IF ~IsStr(projectRaw) THEN Raise
  ELSE IF ~existsSync(NodeAt(fCheck, projectRaw.s, ToText(sessionId) \o ".jsonl"))
  THEN Null
  ELSE DetailFrom(parseJsonlFile(NodeAt(fRead, projectRaw.s,
                                         ToText(sessionId) \o ".jsonl")),
                  projectRaw.s, sessionId)

\* positions of the summary-type records, and of the user records with a message
SummaryAt(entries) == { i \in 1..Len(entries) : TypeIs(entries[i], "summary") }
UserMessageAt(entries) ==
  { i \in 1..Len(entries) :
      TypeIs(entries[i], "user") /\ HasKey(entries[i], "message") }

First(S) == CHOOSE i \in S : \A j \in S : i <= j

\* the text a summary record carries: its summary string, or the nested content
CarriedText(e) ==
  LET sm == Get(e, "summary") IN IF IsStr(sm) THEN sm.s ELSE Get(sm, "content").s

\* the whole text of the message of a user record: a string message or string
\* content as it is, array content as its text-typed blocks joined by a space
MessageText(e) ==
  LET m == Get(e, "message")
      c == Get(m, "content")
      blocks == SelectSeq(c.a, LAMBDA b : TypeIs(b, "text"))
  IN IF IsStr(m) THEN m.s
     ELSE IF IsStr(c) THEN c.s
     ELSE JoinStr([i \in 1..Len(blocks) |-> Get(blocks[i], "text").s], " ")

Produced == ret # NoRet /\ ~IsRaise(ret.v)

UserTextAt(entries) == { i \in UserMessageAt(entries) : MessageText(entries[i]) # "" }

-----------------------------------------------------------------------------
(* The first user message *)

MaxUsers == 3

UserLater == Rec(<<Ty("user"), Msg(<< <<"content", JStr("later")>> >>)>>)
UserString == Rec(<<Ty("user"), <<"message", JStr("plain")>> >>)

UserRecords ==
  { UserHello, UserLater, UserString, UserLong, UserBlocks, UserImage, UserBare,
    AssistantText }

UserInputs == SeqsUpTo(UserRecords, MaxUsers)

InitUsers == HubOff /\ arg \in UserInputs /\ ret = NoRet

\* the loop of lines 128-201 run to its end: ret holds the accumulators
Aggregate ==
  /\ ret = NoRet
  /\ ret' = Val(ExtractLoop(Acc0, arg))
  /\ UNCHANGED arg /\ HubIdle

SpecUsers == InitUsers /\ [][Aggregate]_vars

Aggregated == ret # NoRet /\ ret.v # Raise

UserAt(entries) == { i \in 1..Len(entries) : TypeIs(entries[i], "user") }

\* the first 200 characters of the message text of a user record, empty when
\* the record has no message
CutText(e) ==
  IF HasKey(e, "message") THEN Substring0(MessageText(e), FirstUserLimit) ELSE ""

\* C18 as stated: the first user message is taken from the earliest user record
\* and from no later one, also when the earliest user record has no message or
\* gives an empty text; it is at most 200 characters long.
C18_FirstUserAsStated ==
  Aggregated =>
    /\ ret.v.firstUserMessage =
         IF UserAt(arg) = {} THEN "" ELSE CutText(arg[First(UserAt(arg))])
    /\ Len(ret.v.firstUserMessage) <= 200

\* C18 amended: the first user message is the first 200 characters of the text
\* of the earliest user record whose message gives a text that is not empty, and
\* is taken from no user record after that one; without such a record it stays
\* empty.
C18_FirstUserAmended ==
  Aggregated =>
    /\ ret.v.firstUserMessage =
         IF UserTextAt(arg) = {} THEN "" ELSE CutText(arg[First(UserTextAt(arg))])
    /\ Len(ret.v.firstUserMessage) <= 200

\* the text of an earlier user record was kept when a later one came
C18_Witness ==
  /\ Aggregated
  /\ \E i, j \in 1..Len(arg) : i < j /\ arg[i] = UserHello /\ arg[j] = UserLater
  /\ UserTextAt(arg) # {} /\ arg[First(UserTextAt(arg))] = UserHello
  /\ ret.v.firstUserMessage = "hello"

-----------------------------------------------------------------------------
(* The tool list of a Session Summary *)

MaxTools == 4

ToolUse(name) == Rec(<<Ty("tool_use"), <<"name", JStr(name)>> >>)
ToolBlock(name) == Block("tool_use", << <<"name", JStr(name)>> >>)
\* a record of another type that carries a tool field
ToolField == Rec(<<Ty("progress"), <<"tool", JStr("write")>> >>)
\* a tool_use record without a name
ToolNameless == Rec(<<Ty("tool_use")>>)
\* a tool_use record with both fields: the tool field names it
ToolBoth == Rec(<<Ty("tool_use"), <<"tool", JStr("read")>>, <<"name", JStr("grep")>> >>)
\* a tool_use record whose name is a mapping rather than a text
ToolObject ==
  Rec(<<Ty("tool_use"), <<"name", JObj(<< <<"id", JStr("grep")>> >>)>> >>)
\* an assistant record with tool_use blocks, one of them unnamed
AssistantTools ==
  Rec(<<Ty("assistant"),
        Msg(<< <<"content", JArr(<<ToolBlock("grep"), TextBlock("t"),
                                   Block("tool_use", <<>>), ToolBlock("read"),
                                   ToolBlock("grep")>>)>> >>)>>)

ToolRecords ==
  { ToolUse("grep"), ToolUse("read"), ToolUse("write"), ToolField, ToolNameless,
    ToolBoth, ToolObject, AssistantTools, UserHello }

ToolInputs == SeqsUpTo(ToolRecords, MaxTools)

InitTools == HubOff /\ arg \in ToolInputs /\ ret = NoRet

ExtractTools ==
  /\ ret = NoRet
  /\ ret' = Val(extractSessionInfo(arg, ProjectA, Session1))
  /\ UNCHANGED arg /\ HubIdle

SpecTools == InitTools /\ [][ExtractTools]_vars

\* the tool names one record mentions, in the order they stand in it: the
\* record's own name when it is a tool_use record or has a tool field, then the
\* named tool_use blocks of an assistant record's content
NamesOf(entry) ==
  LET own == IF TypeIs(entry, "tool_use") \/ Truthy(Get(entry, "tool"))
             THEN << JsOr(Get(entry, "tool"), JsOr(Get(entry, "name"), JStr("unknown"))) >>
             ELSE << >>
      content == GetOpt(Get(entry, "message"), "content")
      named == IF TypeIs(entry, "assistant") /\ IsArr(content)
               THEN SelectSeq(content.a,
                              LAMBDA b : TypeIs(b, "tool_use") /\ Truthy(Get(b, "name")))
               ELSE << >>
  IN own \o [i \in 1..Len(named) |-> Get(named[i], "name")]

RECURSIVE Occurrences(_)
Occurrences(entries) ==
  IF Len(entries) = 0 THEN << >>
  ELSE NamesOf(Head(entries)) \o Occurrences(Tail(entries))

RECURSIVE KeepAt(_, _, _)
\* the elements of occ standing at the positions from i on that are in keep
KeepAt(occ, keep, i) ==
  IF i > Len(occ) THEN << >>
  ELSE (IF i \in keep THEN << occ[i] >> ELSE << >>) \o KeepAt(occ, keep, i + 1)

\* the first occurrence of every name
FirstOccurrences(occ) ==
  KeepAt(occ, { i \in 1..Len(occ) : \A j \in 1..(i - 1) : occ[j] # occ[i] }, 1)

\* the first occurrence of every name that is a text, and every occurrence of a
\* name that is a mapping or a list
FirstTextOccurrences(occ) ==
  KeepAt(occ, { i \in 1..Len(occ) :
                  \/ occ[i].k \in {"obj", "arr"}
                  \/ \A j \in 1..(i - 1) : occ[j] # occ[i] }, 1)

ToolsListed == ret # NoRet /\ ~IsRaise(ret.v)

-----------------------------------------------------------------------------
(* What goes on the wire: the objects handed to JSON.stringify and res.json *)

\* a Session Summary as the object of lines 203-215 (+ 104-106, 424-425)
SessionObj(s) ==
  JObj(<< <<"id", JStr(s.id)>>,
          <<"project", JStr(s.project)>>,
          <<"projectRaw", JStr(s.projectRaw)>>,
          <<"summary", JStr(s.summary)>>,
          <<"messageCount", JNum(s.messageCount)>>,
          <<"totalInputTokens", s.totalInputTokens>>,
          <<"totalOutputTokens", s.totalOutputTokens>>,
          <<"totalTokens", s.totalTokens>>,
          <<"toolUses", JArr(s.toolUses)>>,
          <<"model", s.model>>,
          <<"entryCount", JNum(s.entryCount)>>,
          <<"filePath", s.filePath>>,
          <<"lastModified", s.lastModified>>,
          <<"fileSize", s.fileSize>> >>)

\* the object of lines 236-242
MessageObj(m) ==
  JObj(<< <<"index", JNum(m.index)>>, <<"type", m.type>>,
          <<"timestamp", m.timestamp>>, <<"content", m.content>>,
          <<"raw", m.raw>> >>)

\* the object of lines 245-250, or null
DetailObj(d) ==
  IF d.k = "null" THEN Null
  ELSE JObj(<< <<"sessionId", d.sessionId>>,
               <<"project", JStr(d.project)>>,
               <<"messages", JArr(MapSeq(MessageObj, d.messages))>>,
               <<"stats", SessionObj(d.stats)>> >>)

\* lines 376-380
InitData(sessions) ==
  JObj(<< Ty("init"),
          <<"sessions", JArr(MapSeq(SessionObj, sessions))>>,
          <<"claudeDir", JStr(ClaudeDir)>> >>)

\* lines 388-391
DetailsData(details) ==
  JObj(<< Ty("sessionDetails"), <<"data", DetailObj(details)>> >>)

\* lines 428-432
UpdateData(info, entries) ==
  JObj(<< Ty("sessionUpdate"),
          <<"session", SessionObj(info)>>,
          <<"latestEntry", IF Len(entries) = 0 THEN Undef
                           ELSE entries[Len(entries)]>> >>)

\* lines 439-441
RefreshData == JObj(<< Ty("refresh") >>)

-----------------------------------------------------------------------------
(* The directories of the model and what their external owner does to them *)

FileText(records) ==
  JoinStr([i \in 1..Len(records) |-> JsonText(records[i], 0, 0)], "\n") \o "\n"

TextOk == FileText(<<UserHello, AssistantGrep>>)
\* a tool_use block without input: formatEntryContent raises on it
TextFmtRaise == FileText(<<UserHello, AssistantTool>>)
\* a null content block: extractSessionInfo and formatEntryContent raise on it
TextExtRaise == FileText(<<UserNullBlock>>)

MTimes == {1}

\* the nodes a session file of the model can be
NodesOf(file) ==
  IF file = Session1
  THEN { FileNode(t, m) : t \in {TextOk, TextFmtRaise, TextExtRaise}, m \in MTimes }
  ELSE IF file = Session2 THEN { FileNode(TextOk, 2) }
  ELSE { FileNode("notes", 1) }

SessionFiles == {Session1, Session2}

SessionPaths == { p \in FilePaths : p[2] \in SessionFiles }

NoFiles == [p \in FilePaths |-> AbsentNode]

\* the root as setupWatcher leaves it when it had to create it (line 404)
EmptyRoot == [root |-> "dir", proj |-> [p \in Range(ProjectNames) |-> "absent"],
              file |-> NoFiles]

NoRoot == [EmptyRoot EXCEPT !.root = "absent"]

\* a project with its notes and both session files
FullRoot ==
  [root |-> "dir", proj |-> [p \in Range(ProjectNames) |-> "dir"],
   file |-> [p \in FilePaths |->
               IF p[2] = Session1 THEN FileNode(TextOk, 1)
               ELSE IF p[2] = Session2 THEN FileNode(TextOk, 2)
               ELSE FileNode("notes", 1)]]

InitDirs == {EmptyRoot, FullRoot}

RemoveFile(f, p) == [f EXCEPT !.file[p] = AbsentNode]

RemoveProject(f, project) ==
  [f EXCEPT !.proj[project] = "absent",
            !.file = [p \in FilePaths |-> IF p[1] = project THEN AbsentNode ELSE @[p]]]

\* what one removal or chmod by the external owner makes of the directory f
RaceNext(f) ==
  { RemoveFile(f, p) : p \in { q \in SessionPaths : f.file[q].st # "absent" } }
  \cup { RemoveProject(f, p) : p \in { q \in Range(ProjectNames) : f.proj[q] # "absent" } }
  \cup { [f EXCEPT !.proj[p] = "noperm"] :
           p \in { q \in Range(ProjectNames) : f.proj[q] = "dir" } }

\* the directory at the four instants a scan reads it: the owner, a separate
\* process, makes at most one removal or chmod while the handler runs
Snaps(f) ==
  { <<f, f, f, f>> }
  \cup UNION { { <<f, g, g, g>>, <<f, f, g, g>>, <<f, f, f, g>> } : g \in RaceNext(f) }

\* the same for getSessionDetails, which reads the directory at its existence
\* check (the first instant) and at its read (the last)
CheckThenRead(f) == { <<f, f, f, f>> } \cup { <<f, g, g, g>> : g \in RaceNext(f) }

\* the same for a handler that does not read the directory
NoRead(f) == { <<f, f, f, f>> }

-----------------------------------------------------------------------------
(* The hub: server.js:22-55, 374-489 *)

Sockets == {"w1", "w2"}

NoSends == [w \in Sockets |-> <<>>]

\* what a handler run leaves behind: how it ended, the data it built, the
\* texts it handed to ws.send() of each socket
Outcome(out, data, sends) == [out |-> out, data |-> data, sends |-> sends]
Raised == Outcome("raised", Undef, NoSends)
Quiet == Outcome("done", Undef, NoSends)

NoRun == [op |-> "none", ws |-> "", in |-> "", out |-> "", data |-> Undef]
Ran(op, ws, in, r) == [op |-> op, ws |-> ws, in |-> in, out |-> r.out, data |-> r.data]

\* ws.send(JSON.stringify(data)) on the socket ws
SendTo(ws, data) ==
  Outcome("done", data, [NoSends EXCEPT ![ws] = <<Stringify(data, 0).s>>])

\* the loop of lines 50-54 without the readyState test
broadcastAll(data) ==
  Outcome("done", data,
          [w \in Sockets |-> IF w \in clients THEN <<Stringify(data, 0).s>> ELSE <<>>])

\* server.js:48-55
broadcast(data) ==
  Outcome("done", data,
          [w \in Sockets |->
             IF w \in clients /\ readyState[w] = "OPEN"
             THEN <<Stringify(data, 0).s>> ELSE <<>>])

\* server.js:374-381
\* lines 376-380 on the result of getAllSessions
InitReply(ws, sessions) ==
  IF IsRaise(sessions) THEN Raised ELSE SendTo(ws, InitData(sessions.a))

sendInitialData(ws, snap) == InitReply(ws, getAllSessions(snap))

\* server.js:384-398.  getSessionDetails sees snap[1] at its existence check
\* and snap[4] at its read.
\* lines 388-391 on the result of getSessionDetails
DetailsReply(ws, details) ==
  IF IsRaise(details) THEN Raised ELSE SendTo(ws, DetailsData(details))

handleClientMessage(ws, data, snap) ==
  IF IsRaise(Get(data, "type")) THEN Raised
  ELSE IF Get(data, "type") = JStr("getSession")
  THEN DetailsReply(ws, getSessionDetails(snap[1], snap[4], Get(data, "projectRaw"),
                                          Get(data, "sessionId")))
  ELSE IF Get(data, "type") = JStr("refresh") THEN sendInitialData(ws, snap)
  ELSE Quiet

\* the listener of lines 37-44 with the try of line 38 taken away
NoTryCatch(r) == r

\* lines 38-43: try { ... } catch (e) { console.error(...) }
TryCatch(r) == IF r.out = "raised" THEN [r EXCEPT !.out = "caught"] ELSE r

\* server.js:37-44
\* lines 39-40 on the result of JSON.parse
Dispatch(ws, data, snap) ==
  IF IsRaise(data) THEN Raised ELSE handleClientMessage(ws, data, snap)

onMessage(ws, message, snap) == TryCatch(Dispatch(ws, JSONparse(message), snap))

\* a session-log file that lies directly under CLAUDE_DIR or inside a
\* subdirectory of a project: getAllSessions skips the first as a root entry
\* that is not a directory (line 91) and does not descend to the second (line 96)
StrayNode == FileNode(TextOk, 1)

\* fs node of a path given by its segments below CLAUDE_DIR
NodeOfPath(f, segs) ==
  IF Len(segs) = 2 THEN NodeAt(f, segs[1], segs[2]) ELSE StrayNode

\* server.js:413-434; now is the value of new Date()
\* lines 424-432 on the summary of the changed file
Update(info, entries, segs, now) ==
  IF info = Raise THEN Raised
  ELSE broadcast(UpdateData([info EXCEPT !.filePath = JStr(PathText(segs)),
                                         !.lastModified = JDate(now)],
                            entries))

\* lines 418-423 on the decoded entries: parts.pop() twice
Changed(entries, parts, segs, now) ==
  Update(extractSessionInfo(entries, parts[Len(parts) - 1], parts[Len(parts)]),
         entries, segs, now)

onChange(f, segs, now) ==
  IF ~EndsWithJsonl(PathText(segs)) THEN Quiet
  ELSE Changed(parseJsonlFile(NodeOfPath(f, segs)), ClaudeSegs \o segs, segs, now)

\* the 'add' listener without the suffix test of line 437
onAddAny(segs) == broadcast(RefreshData)

\* server.js:436-443
onAdd(segs) ==
  IF ~EndsWithJsonl(PathText(segs)) THEN Quiet ELSE broadcast(RefreshData)

\* an HTTP response
Response(status, body) == Outcome(status, body, NoSends)
\* Express answers 500 when a route handler throws
ServerError == Response("500", Undef)

\* server.js:449-452
\* res.json(sessions)
SessionsBody(sessions) ==
  IF IsRaise(sessions) THEN ServerError
  ELSE Response("200", JArr(MapSeq(SessionObj, sessions.a)))

getSessions(snap) == SessionsBody(getAllSessions(snap))

\* server.js:454-463
\* lines 458-462
DetailsBody(details) ==
  IF IsRaise(details) THEN ServerError
  ELSE IF details.k = "null"
       THEN Response("404", JObj(<< <<"error", JStr("Session not found")>> >>))
       ELSE Response("200", DetailObj(details))

getSession(snap, projectRaw, sessionId) ==
  DetailsBody(getSessionDetails(snap[1], snap[4], JStr(projectRaw), JStr(sessionId)))

RECURSIVE SumOf(_, _)
\* sessions.reduce((sum, s) => sum + s.<field>, 0) over the values of the field
SumOf(sum, values) ==
  IF Len(values) = 0 THEN sum ELSE SumOf(JsAdd(sum, Head(values)), Tail(values))

\* obj[key] = (obj[key] || 0) + 1 on the pairs of an object
Bump(pairs, key) ==
  IF \E i \in 1..Len(pairs) : pairs[i][1] = key
  THEN [i \in 1..Len(pairs) |->
          IF pairs[i][1] = key THEN <<key, JsAdd(JsOr(pairs[i][2], JNum(0)), JNum(1))>>
          ELSE pairs[i]]
  ELSE Append(pairs, <<key, JNum(1)>>)

RECURSIVE Tally(_, _)
Tally(pairs, keys) ==
  IF Len(keys) = 0 THEN pairs ELSE Tally(Bump(pairs, Head(keys)), Tail(keys))

RECURSIVE Flatten(_)
Flatten(seqs) == IF Len(seqs) = 0 THEN <<>> ELSE Head(seqs) \o Flatten(Tail(seqs))

\* lines 468-486 on the array of summaries
StatsOf(sessions) ==
  JObj(<< <<"totalSessions", JNum(Len(sessions))>>,
          <<"totalTokens",
            SumOf(JNum(0), [i \in 1..Len(sessions) |-> sessions[i].totalTokens])>>,
          <<"totalInputTokens",
            SumOf(JNum(0), [i \in 1..Len(sessions) |-> sessions[i].totalInputTokens])>>,
          <<"totalOutputTokens",
            SumOf(JNum(0), [i \in 1..Len(sessions) |-> sessions[i].totalOutputTokens])>>,
          <<"totalMessages",
            SumOf(JNum(0), [i \in 1..Len(sessions) |-> JNum(sessions[i].messageCount)])>>,
          <<"toolUsage",
            JObj(Tally(<<>>, Flatten([i \in 1..Len(sessions) |->
                                        MapSeq(ToText, sessions[i].toolUses)])))>>,
          <<"modelUsage",
            JObj(Tally(<<>>, MapSeq(ToText,
                                    SelectSeq([i \in 1..Len(sessions) |-> sessions[i].model],
                                              Truthy))))>> >>)

\* res.json(stats)
StatsBody(sessions) ==
  IF IsRaise(sessions) THEN ServerError ELSE Response("200", StatsOf(sessions.a))

\* server.js:465-489
getStats(snap) == StatsBody(getAllSessions(snap))

-----------------------------------------------------------------------------
(* Inputs of the hub *)

InvalidText == "{oops"

\* the texts observers send
ClientTexts == { JsonText(v, 0, 0) : v \in ClientValues } \cup { InvalidText }

\* the paths chokidar reports, as segments below CLAUDE_DIR: with depth: 2
\* (line 410) files directly under the root, in a project and in a
\* subdirectory of a project
WatchPaths ==
  { <<ProjectA, Session1>>, <<ProjectA, Session2>>, <<ProjectA, "notes.txt">>,
    <<"s0.jsonl">>, <<ProjectA, "sub", "s3.jsonl">> }

\* values of new Date() in the change listener
Clock == {4, 5}

\* the :projectRaw/:sessionId of the REST route
RestRequests == { <<ProjectA, "s1">>, <<ProjectA, "s9">> }
Url(req) == "/api/session/" \o req[1] \o "/" \o req[2]

-----------------------------------------------------------------------------
(* The state machine of the server process *)

Init ==
  /\ fs \in InitDirs
  /\ clients = {}
  /\ readyState = [w \in Sockets |-> "NONE"]
  /\ sent = NoSends
  /\ firstSent = [w \in Sockets |-> "none"]
  /\ down = FALSE
  /\ run = NoRun
  /\ arg = NoRet
  /\ ret = NoRet

\* the type of the first message each socket was ever sent
MarkFirst(sends, type) ==
  [w \in Sockets |->
     IF firstSent[w] = "none" /\ sends[w] # <<>> THEN type ELSE firstSent[w]]

TypeOfData(data) == IF data.k = "obj" THEN ToText(Get(data, "type")) ELSE "none"

\* the effects of a handler run r that read the directory along snap
Effects(op, ws, in, r, snap) ==
  /\ fs' = snap[4]
  /\ down' = (r.out = "raised")
  /\ sent' = r.sends
  /\ firstSent' = MarkFirst(r.sends, TypeOfData(r.data))
  /\ run' = Ran(op, ws, in, r)
  /\ UNCHANGED <<arg, ret>>

\* connections are numbered in the order they arrive
NextSocket(w) ==
  /\ readyState[w] = "NONE"
  /\ w = "w1" \/ readyState["w1"] # "NONE"

\* server.js:25-45: a socket connects.  An exception of sendInitialData leaves
\* the listener of the 'connection' event uncaught: the process ends.
Connect(w) ==
  /\ ~down /\ NextSocket(w)
  /\ clients' = clients \cup {w}
  /\ readyState' = [readyState EXCEPT ![w] = "OPEN"]
  /\ \E snap \in Snaps(fs) :
       Effects("connection", w, "", sendInitialData(w, snap), snap)

\* the peer or the network starts closing the transport; 'close' is emitted later
TransportClose(w) ==
  /\ ~down /\ readyState[w] = "OPEN"
  /\ readyState' = [readyState EXCEPT ![w] = "CLOSING"]
  /\ sent' = NoSends /\ run' = NoRun
  /\ UNCHANGED <<fs, clients, firstSent, down, arg, ret>>

\* lines 32-35: the 'close' listener
Close(w) ==
  /\ ~down /\ readyState[w] \in {"OPEN", "CLOSING"}
  /\ readyState' = [readyState EXCEPT ![w] = "CLOSED"]
  /\ clients' = clients \ {w}
  /\ sent' = NoSends
  /\ run' = Ran("close", w, "", Quiet)
  /\ UNCHANGED <<fs, firstSent, down, arg, ret>>

\* the instants at which the run for a message reads the directory
MessageSnaps(f, text) ==
  LET data == JSONparse(text)
      type == IF data.k = "obj" THEN Get(data, "type") ELSE Undef
  IN IF type = JStr("refresh") THEN Snaps(f)
     ELSE IF type = JStr("getSession") THEN CheckThenRead(f)
     ELSE NoRead(f)

\* lines 37-44: the 'message' listener
Message(w, text) ==
  /\ ~down /\ readyState[w] = "OPEN"
  /\ \E snap \in MessageSnaps(fs, text) :
       Effects("message", w, text, onMessage(w, text, snap), snap)
  /\ UNCHANGED <<clients, readyState>>

\* lines 413-434: the 'change' listener.  An exception in it is uncaught.
WatchChange(segs, now) ==
  /\ ~down
  /\ \E snap \in NoRead(fs) :
       Effects("change", "", PathText(segs), onChange(fs, segs, now), snap)
  /\ UNCHANGED <<clients, readyState>>

\* lines 436-443: the 'add' listener
WatchAdd(segs) ==
  /\ ~down
  /\ \E snap \in NoRead(fs) : Effects("add", "", PathText(segs), onAdd(segs), snap)
  /\ UNCHANGED <<clients, readyState>>

\* lines 449-452
RestSessions ==
  /\ ~down
  /\ \E snap \in Snaps(fs) : Effects("GET /api/sessions", "", "", getSessions(snap), snap)
  /\ UNCHANGED <<clients, readyState>>

\* lines 454-463
RestSession(req) ==
  /\ ~down
  /\ \E snap \in CheckThenRead(fs) :
       Effects("GET /api/session", "", Url(req), getSession(snap, req[1], req[2]), snap)
  /\ UNCHANGED <<clients, readyState>>

\* lines 465-489
RestStats ==
  /\ ~down
  /\ \E snap \in Snaps(fs) : Effects("GET /api/stats", "", "", getStats(snap), snap)
  /\ UNCHANGED <<clients, readyState>>

\* the external owner of the directory acts while no handler runs
Owner(f) ==
  /\ ~down
  /\ fs' = f
  /\ sent' = NoSends /\ run' = NoRun
  /\ UNCHANGED <<clients, readyState, firstSent, down, arg, ret>>

\* it writes a session file of an existing project
FsWrite(p, node) ==
  /\ fs.root = "dir" /\ fs.proj[p[1]] = "dir"
  /\ Owner([fs EXCEPT !.file[p] = node])

\* it creates a project directory, with its notes
FsMkProject(project) ==
  /\ fs.root = "dir" /\ fs.proj[project] = "absent"
  /\ Owner([fs EXCEPT !.proj[project] = "dir",
                      !.file[<<project, "notes.txt">>] = FileNode("notes", 1)])

\* it removes a file or a project, or makes a project unreadable
FsRemove ==
  \E f \in RaceNext(fs) : Owner(f)

\* it makes a project readable again
FsChmod(project) ==
  /\ fs.proj[project] = "noperm"
  /\ Owner([fs EXCEPT !.proj[project] = "dir"])

\* it removes the whole root, or creates it again
FsRoot ==
  \/ fs.root = "dir" /\ Owner(NoRoot)
  \/ fs.root = "absent" /\ Owner(EmptyRoot)

Next ==
  \/ \E w \in Sockets : Connect(w)
  \/ \E w \in Sockets : TransportClose(w)
  \/ \E w \in Sockets : Close(w)
  \/ \E w \in Sockets, text \in ClientTexts : Message(w, text)
  \/ \E segs \in WatchPaths, now \in Clock : WatchChange(segs, now)
  \/ \E segs \in WatchPaths : WatchAdd(segs)
  \/ RestSessions
  \/ \E req \in RestRequests : RestSession(req)
  \/ RestStats
  \/ \E p \in SessionPaths : \E node \in NodesOf(p[2]) : FsWrite(p, node)
  \/ \E project \in Range(ProjectNames) : FsMkProject(project)
  \/ FsRemove
  \/ \E project \in Range(ProjectNames) : FsChmod(project)
  \/ FsRoot

Spec == Init /\ [][Next]_vars

-----------------------------------------------------------------------------
(* Properties of the hub *)

\* C2: no failure propagates out of a component: whatever the directory holds
\* and whatever its owner removes or makes unreadable during a scan, no handler
\* run ends in an uncaught exception and no REST request is answered with the
\* error of an exception that left getAllSessions.
C2_NoFailurePropagates == ~down /\ run.out \notin {"raised", "500"}

\* the last step was a watcher listener that broadcast
BroadcastRun == run.op \in {"change", "add"} /\ run.out = "done" /\ run.data # Undef

\* C4: the registry holds exactly the sockets that connected and whose 'close'
\* has not run; a broadcast hands its serialized event exactly once to every
\* socket whose transport is open and to no other; what any other handler run
\* sends is a reply to the socket that asked, never a broadcast event.
C4_BroadcastToOpenRegistered ==
  /\ \A w \in Sockets : (w \in clients) <=> (readyState[w] \in {"OPEN", "CLOSING"})
  /\ BroadcastRun =>
       \A w \in Sockets :
         sent[w] = IF readyState[w] = "OPEN"
                   THEN <<Stringify(run.data, 0).s>> ELSE <<>>
  /\ ~BroadcastRun =>
       \A w \in Sockets :
         sent[w] # <<>> =>
           w = run.ws /\ TypeOfData(run.data) \in {"init", "sessionDetails"}

\* a broadcast reached the open socket and skipped the closing one
C4_Witness ==
  /\ BroadcastRun
  /\ \E a, b \in Sockets :
       /\ readyState[a] = "OPEN" /\ Len(sent[a]) = 1
       /\ readyState[b] = "CLOSING" /\ b \in clients /\ sent[b] = <<>>

\* C5: a connect hands the connecting socket exactly one init event with the
\* sessions and the root path, and the first message any socket is ever sent
\* is its init.
C5_InitFirst ==
  /\ run.op = "connection" =>
       /\ TypeOfData(run.data) = "init"
       /\ IsArr(Get(run.data, "sessions"))
       /\ Get(run.data, "claudeDir") = JStr(ClaudeDir)
       /\ sent = [NoSends EXCEPT ![run.ws] = <<Stringify(run.data, 0).s>>]
  /\ \A w \in Sockets : firstSent[w] \in {"none", "init"}

\* the type of a client message text, undefined when it has none
RequestType(text) ==
  LET data == JSONparse(text) IN
  IF data.k = "obj" THEN Get(data, "type") ELSE Undef

\* C6: a getSession message gets exactly one sessionDetails reply, a refresh
\* message exactly one init, any other message none, and nothing is sent to a
\* socket other than the one that asked.
C6_OneReplyPerRequest ==
  run.op = "message" =>
    LET type == RequestType(run.in)
        reply == IF type = JStr("getSession") THEN "sessionDetails"
                 ELSE IF type = JStr("refresh") THEN "init" ELSE "none"
    IN /\ \A w \in Sockets \ {run.ws} : sent[w] = <<>>
       /\ reply = "none" => sent[run.ws] = <<>>
       /\ reply # "none" =>
            /\ TypeOfData(run.data) = reply
            /\ sent[run.ws] = <<Stringify(run.data, 0).s>>

\* a text that is not JSON, or JSON for a value that is no object
Malformed(text) == JSONparse(text).k # "obj"

\* C7: a malformed message is caught in its listener: the process stays up,
\* nothing is sent for it, the registry and every transport are as before with
\* the sender registered and open; the broadcast or the refresh that comes
\* right after it is served to that sender.
C7_MalformedCaught ==
  [][ /\ (run'.op = "message" /\ Malformed(run'.in)) =>
           /\ run'.out \in {"caught", "done"} /\ ~down'
           /\ sent' = NoSends
           /\ clients' = clients /\ readyState' = readyState
           /\ run'.ws \in clients' /\ readyState'[run'.ws] = "OPEN"
      /\ (run.op = "message" /\ Malformed(run.in)) =>
           /\ (run'.op \in {"change", "add"} /\ run'.out = "done" /\ run'.data # Undef)
                => sent'[run.ws] = <<Stringify(run'.data, 0).s>>
           /\ (run'.op = "message" /\ run'.ws = run.ws /\ run'.out = "done"
               /\ RequestType(run'.in) = JStr("refresh"))
                => Len(sent'[run.ws]) = 1 /\ TypeOfData(run'.data) = "init"
    ]_vars

\* a text that is not JSON was caught and its sender is still registered and open
C7_Witness ==
  /\ run.op = "message" /\ run.in = InvalidText /\ run.out = "caught"
  /\ ~down /\ run.ws \in clients /\ readyState[run.ws] = "OPEN"
  /\ sent = NoSends

\* the fields of a Session Summary other than lastModified
SummaryFields ==
  { "id", "project", "projectRaw", "summary", "messageCount", "totalInputTokens",
    "totalOutputTokens", "totalTokens", "toolUses", "model", "entryCount",
    "filePath", "fileSize" }

SameSummary(a, b) == \A n \in SummaryFields : Get(a, n) = Get(b, n)

\* C8: the summary a change event carries, the summary getAllSessions returns
\* for the same file and the stats of getSessionDetails for it agree in every
\* field other than lastModified.
C8_WatchAndOnDemandAgree ==
  (run.op = "change" /\ BroadcastRun) =>
    LET s == Get(run.data, "session")
        all == getAllSessions(<<fs, fs, fs, fs>>)
        det == getSessionDetails(fs, fs, Get(s, "projectRaw"), Get(s, "id"))
    IN (~IsRaise(all) /\ det.k = "detail"
        /\ \E i \in 1..Len(all.a) : JStr(all.a[i].id) = Get(s, "id")) =>
         /\ \A i \in 1..Len(all.a) :
              JStr(all.a[i].id) = Get(s, "id") => SameSummary(s, SessionObj(all.a[i]))
         /\ SameSummary(s, SessionObj(det.stats))

\* the session file a REST request names
RequestedNode(f, req) == NodeAt(f, req[1], req[2] \o ".jsonl")

\* C9: a request for the details of a session whose file does not exist is
\* answered not-found (404 on the REST route, data null on the channel), never
\* with an error and never with a Session Detail, also when the file went away
\* while the request was served.
C9_AbsentIsNotFound ==
  /\ \A req \in RestRequests :
       (run.op = "GET /api/session" /\ run.in = Url(req)
        /\ ~existsSync(RequestedNode(fs, req))) => run.out = "404"
  /\ \A req \in RestRequests :
       (run.op = "message"
        /\ run.in = JsonText(GetSession(<< <<"projectRaw", JStr(req[1])>>,
                                           <<"sessionId", JStr(req[2])>> >>), 0, 0)
        /\ ~existsSync(RequestedNode(fs, req))) =>
         run.data = DetailsData(Null)

-----------------------------------------------------------------------------
(* Watch events *)

\* the session name of a session-log file name: the name without its suffix
Stem(file) == SubSeq(file, 1, Len(file) - 6)

\* the sessionUpdate message a modify event for <root>/P/S.jsonl has to give,
\* from the file as it stands when the event is handled
IsUpdateOf(data, node, project, file) ==
  LET entries == parseJsonlFile(node)
      built == extractSessionInfo(entries, project, file)
      s == Get(data, "session")
  IN /\ TypeOfData(data) = "sessionUpdate"
     /\ Get(s, "id") = JStr(Stem(file))
     /\ Get(s, "projectRaw") = JStr(project)
     /\ Get(s, "project") = JStr(decodeProjectName(project))
     /\ ~IsRaise(built) /\ SameSummary(s, SessionObj([built EXCEPT
                               !.filePath = JStr(PathText(<<project, file>>))]))
     /\ Get(s, "entryCount") = JNum(Len(entries))
     /\ Get(data, "latestEntry") = IF Len(entries) = 0 THEN Undef
                                   ELSE entries[Len(entries)]

\* the step is the handling of a modify event for the session-log file at segs
ModifyOf(segs) ==
  /\ segs \in SessionPaths
  /\ run'.op = "change" /\ run'.in = PathText(segs)

\* every open socket was handed the text of data once, no other socket anything
SentOnce(data) ==
  \A w \in Sockets :
    sent'[w] = IF readyState[w] = "OPEN" THEN <<Stringify(data, 0).s>> ELSE <<>>

\* C13: a modify event for <root>/P/S.jsonl gives exactly one sessionUpdate
\* broadcast, whose summary has id S, project_raw P and project
\* decodeProjectName(P), is built from the records of that file only, and whose
\* latest entry is the last decoded record of the file.
C13_ModifyBroadcastsUpdate ==
  [][ \A segs \in SessionPaths :
        ModifyOf(segs) =>
          /\ run'.out = "done"
          /\ IsUpdateOf(run'.data, NodeAt(fs, segs[1], segs[2]), segs[1], segs[2])
          /\ SentOnce(run'.data) ]_vars

RefreshText == "{\"type\":\"refresh\"}"

\* C14: an add event for a session-log path gives exactly one broadcast, of type
\* refresh and with no session payload, and the new file is neither decoded nor
\* aggregated; an add event for any other path gives no broadcast.
C14_AddBroadcastsRefresh ==
  run.op = "add" =>
    /\ run.out = "done"
    /\ IF EndsWithJsonl(run.in)
       THEN /\ run.data = JObj(<< <<"type", JStr("refresh")>> >>)
            /\ \A w \in Sockets :
                 sent[w] = IF readyState[w] = "OPEN" THEN <<RefreshText>> ELSE <<>>
       ELSE /\ run.data = Undef
            /\ \A w \in Sockets : sent[w] = <<>>

\* a session file that cannot be aggregated was added and the refresh went out
C14_Witness ==
  /\ run.op = "add" /\ run.in = PathText(<<ProjectA, Session1>>)
  /\ fs.file[<<ProjectA, Session1>>].text = TextExtRaise
  /\ \E w \in Sockets : sent[w] = <<RefreshText>>

\* the (project_raw, id) pairs getAllSessions returns when every file of the
\* directory is in place
EverListed ==
  LET all == getAllSessions(<<FullRoot, FullRoot, FullRoot, FullRoot>>).a
  IN { <<JStr(all[i].projectRaw), JStr(all[i].id)>> : i \in 1..Len(all) }

\* C17: every sessionUpdate broadcast carries a summary whose (project_raw, id)
\* getAllSessions can return: a modify event for a .jsonl file directly under
\* the root, or one level deeper inside a project, gives no sessionUpdate for a
\* session the scanner never lists.
C17_UpdatesAreListedSessions ==
  (run.op = "change" /\ TypeOfData(run.data) = "sessionUpdate") =>
    <<Get(Get(run.data, "session"), "projectRaw"),
      Get(Get(run.data, "session"), "id")>> \in EverListed

-----------------------------------------------------------------------------
(* The scan of a missing or empty root *)

RootMissing(f) == f.root = "absent"
RootEmpty(f) == f.root = "dir" /\ \A p \in Range(ProjectNames) : f.proj[p] = "absent"

\* C15: getAllSessions on a root that is missing, or that exists and is empty,
\* returns the empty list and does not raise; it neither creates the root nor
\* changes anything else.
C15_MissingOrEmptyRootIsEmptyList ==
  [][ (RootMissing(fs) \/ RootEmpty(fs)) =>
        /\ run'.op = "GET /api/sessions" =>
             /\ run'.out = "200" /\ run'.data = JArr(<< >>)
             /\ fs' = fs /\ clients' = clients /\ readyState' = readyState
        /\ run'.op = "connection" =>
             /\ run'.out = "done" /\ Get(run'.data, "sessions") = JArr(<< >>)
             /\ fs' = fs ]_vars

\* the list was asked for while the root was missing, and came back empty
C15_Witness ==
  /\ run.op = "GET /api/sessions" /\ RootMissing(fs)
  /\ run.out = "200" /\ run.data = JArr(<< >>)

-----------------------------------------------------------------------------
(* The token totals of a Session Summary, on each path that builds one *)

MaxUsage == 3

Counts(i, o, cc, cr) ==
  JObj(<< <<"input_tokens", JNum(i)>>, <<"output_tokens", JNum(o)>>,
          <<"cache_creation_input_tokens", JNum(cc)>>,
          <<"cache_read_input_tokens", JNum(cr)>> >>)

\* usage on the record itself
UsageOwn == Rec(<<Ty("assistant"), <<"usage", Counts(1, 2, 4, 8)>> >>)
\* usage inside the message only, without the cache counts
UsageInMessage ==
  Rec(<<Ty("assistant"),
        Msg(<< <<"content", JStr("a")>>,
               <<"usage", JObj(<< <<"input_tokens", JNum(16)>>,
                                  <<"output_tokens", JNum(32)>> >>)>> >>)>>)
\* both mappings on one record
UsageBoth ==
  Rec(<<Ty("assistant"), <<"usage", Counts(64, 128, 0, 256)>>,
        Msg(<< <<"content", JStr("b")>>, <<"usage", Counts(512, 1024, 2048, 4096)>> >>)>>)
\* an empty mapping on the record and a filled one inside the message
UsageEmptyOwn ==
  Rec(<<Ty("assistant"), <<"usage", JObj(<<>>)>>,
        Msg(<< <<"content", JStr("c")>>, <<"usage", Counts(8192, 8192, 8192, 8192)>> >>)>>)
\* a record without a message and without usage
UsageNone == Rec(<<Ty("system"), <<"content", JStr("d")>> >>)

UsageRecords ==
  { UsageOwn, UsageInMessage, UsageBoth, UsageEmptyOwn, UsageNone, UserHello,
    AssistantGrep }

UsageInputs == SeqsUpTo(UsageRecords, MaxUsage)

\* the three token totals of a summary record, and of a summary on the wire
TotalsOf(s) ==
  [inTok |-> s.totalInputTokens, outTok |-> s.totalOutputTokens, total |-> s.totalTokens]
TotalsOfObj(o) ==
  [inTok |-> Get(o, "totalInputTokens"), outTok |-> Get(o, "totalOutputTokens"),
   total |-> Get(o, "totalTokens")]

Via(path, totals) == Val([path |-> path, t |-> totals])

\* lines 96-107 on the decoded records of one file: what getAllSessions pushes
Listed(sessions) == IF IsRaise(sessions) THEN Raise ELSE TotalsOf(sessions.a[1])
\* lines 232-250: the stats of the Session Detail
DetailStats(detail) == IF IsRaise(detail) THEN Raise ELSE TotalsOf(detail.stats)
\* lines 418-432: the session of the sessionUpdate message
Broadcast(r) == IF r.out = "raised" THEN Raise ELSE TotalsOfObj(Get(r.data, "session"))

InitTokens == HubOff /\ arg \in UsageInputs /\ ret = NoRet

ListTokens ==
  /\ ret = NoRet
  /\ ret' = Via("list", Listed(Stamped(extractSessionInfo(arg, ProjectA, Session1),
                                       FileNode(FileText(arg), 1), ProjectA, Session1)))
  /\ UNCHANGED arg /\ HubIdle

DetailTokens ==
  /\ ret = NoRet
  /\ ret' = Via("detail", DetailStats(DetailFrom(arg, ProjectA, JStr("s1"))))
  /\ UNCHANGED arg /\ HubIdle

WatchTokens ==
  /\ ret = NoRet
  /\ ret' = Via("watch", Broadcast(Changed(arg, ClaudeSegs \o <<ProjectA, Session1>>,
                                          <<ProjectA, Session1>>, 4)))
  /\ UNCHANGED arg /\ HubIdle

NextTokens == ListTokens \/ DetailTokens \/ WatchTokens

SpecTokens == InitTokens /\ [][NextTokens]_vars

Totalled == ret # NoRet /\ ret.v.t # Raise

\* C12: every Session Summary, whether built for the list, for the stats of a
\* detail or for a watch event, has total_tokens equal to total_input_tokens
\* plus total_output_tokens.
C12_TotalIsInputPlusOutput ==
  Totalled => ret.v.t.total.n = ret.v.t.inTok.n + ret.v.t.outTok.n

\* a watch event has built a summary with input and output tokens
C12_Witness ==
  /\ Totalled
  /\ ret.v.path = "watch"
  /\ ret.v.t.inTok.n > 0 /\ ret.v.t.outTok.n > 0
  /\ ret.v.t.total.n > ret.v.t.inTok.n

\* the usage mapping a record is counted by: its own when it has one, else the
\* one of its message, else none
ChosenUsage(entry) ==
  IF HasKey(entry, "usage") THEN Get(entry, "usage")
  ELSE IF HasKey(entry, "message") /\ HasKey(Get(entry, "message"), "usage")
  THEN Get(Get(entry, "message"), "usage")
  ELSE JObj(<<>>)

CountOf(usage, name) == IF HasKey(usage, name) THEN Get(usage, name).n ELSE 0

InputOf(entry) ==
  CountOf(ChosenUsage(entry), "input_tokens")
  + CountOf(ChosenUsage(entry), "cache_creation_input_tokens")
  + CountOf(ChosenUsage(entry), "cache_read_input_tokens")

OutputOf(entry) == CountOf(ChosenUsage(entry), "output_tokens")

RECURSIVE SumOver(_, _)
SumOver(Op(_), entries) ==
  IF Len(entries) = 0 THEN 0 ELSE Op(Head(entries)) + SumOver(Op, Tail(entries))

\* C19: total_input_tokens is the sum over the records of input_tokens +
\* cache_creation_input_tokens + cache_read_input_tokens and total_output_tokens
\* the sum of output_tokens, each read from one usage mapping per record: the
\* record's own when it has one, else the one of its message; a record with both
\* is counted once and a record with neither adds nothing.
C19_TokensFromOneUsage ==
  Totalled =>
    /\ ret.v.t.inTok.n = SumOver(InputOf, arg)
    /\ ret.v.t.outTok.n = SumOver(OutputOf, arg)

\* a record with both mappings was counted by its own, next to one counted by
\* its message and one that has neither
C19_Witness ==
  /\ Totalled
  /\ \E i, j, h \in 1..Len(arg) :
       arg[i] = UsageBoth /\ arg[j] = UsageInMessage /\ arg[h] = UserHello
  /\ ret.v.t.inTok.n = 64 + 256 + 16
  /\ ret.v.t.outTok.n = 128 + 32

====
